---- MODULE Spec2Model ----
(***************************************************************************)
(* Model of src/script.js: the weather lookup widget.                      *)
(*                                                                         *)
(* State: the value of the city text field, the 'hidden' class of the      *)
(* three panels, the text written into the display elements, and one       *)
(* record per invocation of the async function handleSearch (its position  *)
(* at an await, its locals, and what it has done so far).                  *)
(*                                                                         *)
(* Text is a sequence of tokens (a character, a literal piece of a         *)
(* template string, or a number), so that trimming and template            *)
(* interpolation are computed and not assumed.                             *)
(***************************************************************************)
EXTENDS Integers, Sequences, FiniteSets, TLC

(***************************************************************************)
(* Bounds of the model.                                                    *)
(***************************************************************************)
\* number of handleSearch invocations that can be waiting at an await at one time
MaxInFlight == 2
\* weather codes tried by the classifier specification: -CodeBelow .. 99 + CodeAbove
CodeBelow == 3
CodeAbove == 3
\* temperatures tried by the rounding specification, in tenths of a degree:
\* -MaxTenths .. MaxTenths
MaxTenths == 26

Slots == 1..MaxInFlight
Codes == (0 - CodeBelow)..(99 + CodeAbove)
Tenths == (0 - MaxTenths)..MaxTenths

(***************************************************************************)
(* Text helpers.                                                           *)
(***************************************************************************)
\* the characters String.prototype.trim removes that the inputs below use
IsWhiteSpace(ch) == ch \in {" ", "\t"}

RECURSIVE TrimStart(_)
TrimStart(str) ==
    IF str = <<>> THEN <<>>
    ELSE IF IsWhiteSpace(Head(str)) THEN TrimStart(Tail(str))
    ELSE str

RECURSIVE TrimEnd(_)
TrimEnd(str) ==
    IF str = <<>> THEN <<>>
    ELSE IF IsWhiteSpace(str[Len(str)]) THEN TrimEnd(SubSeq(str, 1, Len(str) - 1))
    ELSE str

\* cityInput.value.trim()
Trim(str) == TrimEnd(TrimStart(str))

\* part occurs in text as a contiguous run of tokens
Contains(text, part) ==
    \E i \in 1..(Len(text) - Len(part) + 1) :
        SubSeq(text, i, i + Len(part) - 1) = part

\* Math.floor in the place of Math.round
MathRoundFloor(tenths) == tenths \div 10

\* Math.round on a value given in tenths: floor(x + 0.5)
MathRound(tenths) == (tenths + 5) \div 10

(***************************************************************************)
(* Inputs of the environment.                                              *)
(***************************************************************************)
\* what the user can have typed into the text field
Inputs ==
    { <<>>, <<" ", "\t">>, <<"a">>, <<" ", "a", " ", "b", "\t">> }

\* keys of a keypress event on the text field
Keys == {"Enter", "a"}

\* how a fetch() promise settles: rejected, or a response with ok false / true
FetchOutcomes == {"reject", "notOk", "ok"}

\* error.message of the exceptions the runtime throws
FetchRejectMsg == <<"Failed to fetch">>
JsonParseMsg == <<"Unexpected token < in JSON">>
RenderTypeErrorMsg == <<"Cannot read properties of undefined">>

\* the first entry of a geocoding result list for a query
Place(city) ==
    [name |-> city, country |-> <<"IN">>, latitude |-> Len(city), longitude |-> 77]

\* bodies of a geocoding response: unparsable, no results field, empty list, one match
GeoBodies(city) ==
    { [parses |-> FALSE, hasResults |-> FALSE, results |-> <<>>],
      [parses |-> TRUE, hasResults |-> FALSE, results |-> <<>>],
      [parses |-> TRUE, hasResults |-> TRUE, results |-> <<>>],
      [parses |-> TRUE, hasResults |-> TRUE, results |-> <<Place(city)>>] }

\* the 'current' block of a weather response (temperatures in tenths of a degree)
Current(t, a, h, w, c) ==
    [temperature_2m |-> t, apparent_temperature |-> a,
     relative_humidity_2m |-> h, wind_speed_10m |-> w, weather_code |-> c]

NoCurrent == Current(0, 0, 0, 0, 0)

WxBody(p, hc, cur) == [parses |-> p, hasCurrent |-> hc, current |-> cur]

\* bodies of a weather response: unparsable, no 'current' field, a reading
WxBodies ==
    { WxBody(FALSE, FALSE, NoCurrent),
      WxBody(TRUE, FALSE, NoCurrent),
      WxBody(TRUE, TRUE, Current(234, 216, 60, 12, 47)) }

\* the day the clock shows when a result is rendered
Today == <<"Monday, Jan 3">>

(***************************************************************************)
(* getWeatherInfo: the first matching range of the if / else-if chain.     *)
(***************************************************************************)
WeatherInfo(d, i) == [description |-> d, icon |-> i]

\* the chain with the upper bound of the rain range one short
getWeatherInfoRainShort(code) ==
    IF code = 0 THEN WeatherInfo("Clear Sky", "fa-sun")
    ELSE IF code >= 1 /\ code <= 3 THEN WeatherInfo("Partly Cloudy", "fa-cloud-sun")
    ELSE IF code >= 45 /\ code <= 48 THEN WeatherInfo("Foggy", "fa-smog")
    ELSE IF code >= 51 /\ code <= 55 THEN WeatherInfo("Drizzle", "fa-cloud-rain")
    ELSE IF code >= 61 /\ code <= 64 THEN WeatherInfo("Rain", "fa-cloud-showers-heavy")
    ELSE IF code >= 71 /\ code <= 77 THEN WeatherInfo("Snow Fall", "fa-snowflake")
    ELSE IF code >= 80 /\ code <= 82 THEN WeatherInfo("Rain Showers", "fa-cloud-showers-water")
    ELSE IF code >= 95 /\ code <= 99 THEN WeatherInfo("Thunderstorm", "fa-cloud-bolt")
    ELSE WeatherInfo("Unknown", "fa-cloud")

\* the chain with the lower bound of the snow range exclusive
getWeatherInfoSnowExclusive(code) ==
    IF code = 0 THEN WeatherInfo("Clear Sky", "fa-sun")
    ELSE IF code >= 1 /\ code <= 3 THEN WeatherInfo("Partly Cloudy", "fa-cloud-sun")
    ELSE IF code >= 45 /\ code <= 48 THEN WeatherInfo("Foggy", "fa-smog")
    ELSE IF code >= 51 /\ code <= 55 THEN WeatherInfo("Drizzle", "fa-cloud-rain")
    ELSE IF code >= 61 /\ code <= 65 THEN WeatherInfo("Rain", "fa-cloud-showers-heavy")
    ELSE IF code > 71 /\ code <= 77 THEN WeatherInfo("Snow Fall", "fa-snowflake")
    ELSE IF code >= 80 /\ code <= 82 THEN WeatherInfo("Rain Showers", "fa-cloud-showers-water")
    ELSE IF code >= 95 /\ code <= 99 THEN WeatherInfo("Thunderstorm", "fa-cloud-bolt")
    ELSE WeatherInfo("Unknown", "fa-cloud")

\* the chain with the icon of the rain row copied into the showers row
getWeatherInfoCopiedIcon(code) ==
    IF code = 0 THEN WeatherInfo("Clear Sky", "fa-sun")
    ELSE IF code >= 1 /\ code <= 3 THEN WeatherInfo("Partly Cloudy", "fa-cloud-sun")
    ELSE IF code >= 45 /\ code <= 48 THEN WeatherInfo("Foggy", "fa-smog")
    ELSE IF code >= 51 /\ code <= 55 THEN WeatherInfo("Drizzle", "fa-cloud-rain")
    ELSE IF code >= 61 /\ code <= 65 THEN WeatherInfo("Rain", "fa-cloud-showers-heavy")
    ELSE IF code >= 71 /\ code <= 77 THEN WeatherInfo("Snow Fall", "fa-snowflake")
    ELSE IF code >= 80 /\ code <= 82 THEN WeatherInfo("Rain Showers", "fa-cloud-showers-heavy")
    ELSE IF code >= 95 /\ code <= 99 THEN WeatherInfo("Thunderstorm", "fa-cloud-bolt")
    ELSE WeatherInfo("Unknown", "fa-cloud")

getWeatherInfo(code) ==
    IF code = 0 THEN WeatherInfo("Clear Sky", "fa-sun")
    ELSE IF code >= 1 /\ code <= 3 THEN WeatherInfo("Partly Cloudy", "fa-cloud-sun")
    ELSE IF code >= 45 /\ code <= 48 THEN WeatherInfo("Foggy", "fa-smog")
    ELSE IF code >= 51 /\ code <= 55 THEN WeatherInfo("Drizzle", "fa-cloud-rain")
    ELSE IF code >= 61 /\ code <= 65 THEN WeatherInfo("Rain", "fa-cloud-showers-heavy")
    ELSE IF code >= 71 /\ code <= 77 THEN WeatherInfo("Snow Fall", "fa-snowflake")
    ELSE IF code >= 80 /\ code <= 82 THEN WeatherInfo("Rain Showers", "fa-cloud-showers-water")
    ELSE IF code >= 95 /\ code <= 99 THEN WeatherInfo("Thunderstorm", "fa-cloud-bolt")
    ELSE WeatherInfo("Unknown", "fa-cloud")

\* the range conditions with the fog range running into the drizzle range
RangeCondsFogTooWide ==
    << [lo |-> 0, hi |-> 0, info |-> WeatherInfo("Clear Sky", "fa-sun")],
       [lo |-> 1, hi |-> 3, info |-> WeatherInfo("Partly Cloudy", "fa-cloud-sun")],
       [lo |-> 45, hi |-> 51, info |-> WeatherInfo("Foggy", "fa-smog")],
       [lo |-> 51, hi |-> 55, info |-> WeatherInfo("Drizzle", "fa-cloud-rain")],
       [lo |-> 61, hi |-> 65, info |-> WeatherInfo("Rain", "fa-cloud-showers-heavy")],
       [lo |-> 71, hi |-> 77, info |-> WeatherInfo("Snow Fall", "fa-snowflake")],
       [lo |-> 80, hi |-> 82, info |-> WeatherInfo("Rain Showers", "fa-cloud-showers-water")],
       [lo |-> 95, hi |-> 99, info |-> WeatherInfo("Thunderstorm", "fa-cloud-bolt")] >>

\* the eight conditions of the chain of getWeatherInfo, in the order of the code,
\* each with the value its branch assigns (code === 0 is the range 0..0)
RangeConds ==
    << [lo |-> 0, hi |-> 0, info |-> WeatherInfo("Clear Sky", "fa-sun")],
       [lo |-> 1, hi |-> 3, info |-> WeatherInfo("Partly Cloudy", "fa-cloud-sun")],
       [lo |-> 45, hi |-> 48, info |-> WeatherInfo("Foggy", "fa-smog")],
       [lo |-> 51, hi |-> 55, info |-> WeatherInfo("Drizzle", "fa-cloud-rain")],
       [lo |-> 61, hi |-> 65, info |-> WeatherInfo("Rain", "fa-cloud-showers-heavy")],
       [lo |-> 71, hi |-> 77, info |-> WeatherInfo("Snow Fall", "fa-snowflake")],
       [lo |-> 80, hi |-> 82, info |-> WeatherInfo("Rain Showers", "fa-cloud-showers-water")],
       [lo |-> 95, hi |-> 99, info |-> WeatherInfo("Thunderstorm", "fa-cloud-bolt")] >>

\* condition i of the chain holds for code
CondHolds(i, code) == code >= RangeConds[i].lo /\ code <= RangeConds[i].hi

\* the chain with its conditions tried in the order given: the first that holds
\* decides, and the initial values of description and icon stay if none does
RECURSIVE FirstMatch(_, _)
FirstMatch(order, code) ==
    IF order = <<>> THEN WeatherInfo("Unknown", "fa-cloud")
    ELSE IF CondHolds(Head(order), code) THEN RangeConds[Head(order)].info
    ELSE FirstMatch(Tail(order), code)

(***************************************************************************)
(* State.                                                                  *)
(***************************************************************************)
VARIABLES
    cityInput,       \* cityInput.value
    weatherHidden,   \* weatherContainer.classList has 'hidden'
    errorHidden,     \* errorContainer.classList has 'hidden'
    loadingHidden,   \* loadingIndicator.classList has 'hidden'
    cityNameEl, dateEl, tempEl, weatherDescEl, weatherIconEl,
    humidityEl, windSpeedEl, feelsLikeEl,   \* textContent / className written by updateUI
    errorTextEl,     \* errorTextEl.textContent
    searches,        \* the invocations of handleSearch, by slot
    submitted,       \* the event handled last was a submission: it called handleSearch
    lastSubmitted    \* history: the invocation that passed the guard last, and how it
                     \* returned (recorded under SpecOrder only)

panels == <<weatherHidden, errorHidden, loadingHidden>>
resultFields ==
    <<cityNameEl, dateEl, tempEl, weatherDescEl, weatherIconEl,
      humidityEl, windSpeedEl, feelsLikeEl>>
vars ==
    <<cityInput, panels, resultFields, errorTextEl, searches, submitted, lastSubmitted>>

\* geoData / weatherData before the await that assigns them has returned
NoGeoData == [parses |-> FALSE, hasResults |-> FALSE, results |-> <<>>]
NoWeatherData == WxBody(FALSE, FALSE, NoCurrent)

\* a slot in which no invocation has run
FreeSearch ==
    [pc |-> "free", city |-> <<>>, geoStatus |-> "none", geoData |-> NoGeoData,
     wxStatus |-> "none", weatherData |-> NoWeatherData,
     outcome |-> "none", message |-> <<>>,
     geoCalls |-> 0, wxCalls |-> 0, hides |-> 0]

InFlightPcs == {"geoFetch", "geoJson", "wxFetch", "wxJson"}
InFlight(s) == searches[s].pc \in InFlightPcs
Available(s) == searches[s].pc \in {"free", "done"}

\* the markup the script is loaded into: every panel hidden, nothing rendered
InitialMarkup ==
    /\ cityInput = <<>>
    /\ weatherHidden = TRUE
    /\ errorHidden = TRUE
    /\ loadingHidden = TRUE
    /\ cityNameEl = <<>>
    /\ dateEl = <<>>
    /\ tempEl = <<>>
    /\ weatherDescEl = <<>>
    /\ weatherIconEl = <<>>
    /\ humidityEl = <<>>
    /\ windSpeedEl = <<>>
    /\ feelsLikeEl = <<>>
    /\ errorTextEl = <<>>

\* no invocation has passed the guard yet
NoneSubmitted == [slot |-> 0, city |-> <<>>, outcome |-> "none", message |-> <<>>]

Init ==
    /\ InitialMarkup
    /\ searches = [s \in Slots |-> FreeSearch]
    /\ submitted = FALSE
    /\ lastSubmitted = NoneSubmitted

(***************************************************************************)
(* Pieces of handleSearch and its helpers.                                 *)
(***************************************************************************)
\* the guard left out
IsEmptyCityNever(city) == FALSE

\* if (!city) return;
IsEmptyCity(city) == city = <<>>

\* the reset without the line that hides the error panel
ResetUIKeepsError ==
    /\ weatherHidden' = TRUE
    /\ errorHidden' = errorHidden
    /\ loadingHidden' = FALSE

\* Reset UI: hide weather and errors, show the loading spinner
ResetUI ==
    /\ weatherHidden' = TRUE
    /\ errorHidden' = TRUE
    /\ loadingHidden' = FALSE

\* the status check left out
ResponseOkAlways(r) == TRUE

\* response.ok
ResponseOk(r) == r = "ok"

\* !geoData.results || geoData.results.length === 0
NoResults(geoData) == ~geoData.hasResults \/ Len(geoData.results) = 0

\* the message without the interpolated city
NotFoundMsgNoCity(city) == <<"City not found">>

\* `City "${city}" not found`
NotFoundMsg(city) == <<"City \"">> \o city \o <<"\" not found">>

GeoUnavailableMsg == <<"Geocoding service unavailable">>
WxUnavailableMsg == <<"Weather service unavailable">>

\* showError(message)
showError(message) ==
    /\ errorTextEl' = message
    /\ errorHidden' = FALSE

\* the spinner left as it is
HideLoadingMissing == loadingHidden' = loadingHidden

\* the spinner's class toggled instead of added
HideLoadingToggle == loadingHidden' = ~loadingHidden

\* finally { loadingIndicator.classList.add('hidden') }
HideLoading == loadingHidden' = TRUE

\* The invocation in slot s returns, leaving the record done. Only the record of
\* the invocation that returned last is kept: an older one is dropped.
Finish(s, done) ==
    [r \in Slots |->
        IF r = s THEN done
        ELSE IF searches[r].pc = "done" THEN FreeSearch
        ELSE searches[r]]

\* catch (error) { showError(error.message) } finally { ... }: the invocation in
\* slot s, whose locals are now me, ends with the error message msg
CatchFinally(s, me, msg) ==
    /\ showError(msg)
    /\ HideLoading
    /\ searches' = Finish(s,
           [me EXCEPT !.pc = "done", !.outcome = "Error", !.message = msg,
                      !.hides = @ + 1])
    /\ submitted' = FALSE
    /\ UNCHANGED <<cityInput, weatherHidden>>

\* an await returned and the invocation in slot s waits at the next one
Continue(s, me) ==
    /\ searches' = [searches EXCEPT ![s] = me]
    /\ submitted' = FALSE
    /\ UNCHANGED <<cityInput, panels, resultFields, errorTextEl>>

(***************************************************************************)
(* updateUI(city, country, data).                                          *)
(***************************************************************************)
\* the statements of updateUI before data.current is first dereferenced
RenderHeader(name, country) ==
    /\ cityNameEl' = name \o <<", ">> \o country
    /\ dateEl' = Today

\* the statements of updateUI that read data.current
RenderCurrent(current) ==
    /\ tempEl' = <<MathRound(current.temperature_2m)>>
    /\ humidityEl' = <<current.relative_humidity_2m, "%">>
    /\ windSpeedEl' = <<current.wind_speed_10m, " km/h">>
    /\ feelsLikeEl' = <<MathRound(current.apparent_temperature), "deg">>
    /\ weatherDescEl' = <<getWeatherInfo(current.weather_code).description>>
    /\ weatherIconEl' = <<"fa-solid ", getWeatherInfo(current.weather_code).icon>>

\* updateUI without its last statement
updateUIStaysHidden(name, country, data) ==
    /\ RenderHeader(name, country)
    /\ RenderCurrent(data.current)
    /\ weatherHidden' = weatherHidden

\* updateUI when data.current is an object: every field, then the panel
updateUI(name, country, data) ==
    /\ RenderHeader(name, country)
    /\ RenderCurrent(data.current)
    /\ weatherHidden' = FALSE

\* updateUI when data.current is undefined: the TypeError of line 108
\* leaves the fields of lines 103 and 105 written
updateUIThrows(name, country) ==
    /\ RenderHeader(name, country)
    /\ UNCHANGED <<tempEl, weatherDescEl, weatherIconEl,
                   humidityEl, windSpeedEl, feelsLikeEl>>

(***************************************************************************)
(* Event handlers.                                                         *)
(***************************************************************************)
\* the slot the next invocation's record is kept in
NextSlot(s) == Available(s) /\ \A r \in Slots : Available(r) => s <= r

\* handleSearch, from its call to its first await (the fetch of fetchGeocoding)
handleSearch ==
    LET city == Trim(cityInput) IN
    IF IsEmptyCity(city)
    THEN /\ submitted' = TRUE
         /\ UNCHANGED <<cityInput, panels, resultFields, errorTextEl, searches>>
    ELSE \E s \in Slots :
            /\ NextSlot(s)
            /\ ResetUI
            /\ searches' = [searches EXCEPT ![s] =
                   [FreeSearch EXCEPT !.pc = "geoFetch", !.city = city,
                                      !.geoStatus = "pending", !.geoCalls = 1]]
            /\ submitted' = TRUE
            /\ UNCHANGED <<cityInput, resultFields, errorTextEl>>

\* searchBtn 'click'
Click == handleSearch

\* cityInput 'keypress'
Keypress(key) ==
    IF key = "Enter" THEN handleSearch
    ELSE /\ submitted' = FALSE
         /\ UNCHANGED <<cityInput, panels, resultFields, errorTextEl, searches>>

\* the user edits the text field
TypeCity(value) ==
    /\ cityInput' = value
    /\ submitted' = FALSE
    /\ UNCHANGED <<panels, resultFields, errorTextEl, searches>>

(***************************************************************************)
(* Continuations of handleSearch after each await.                         *)
(***************************************************************************)
\* fetchGeocoding fetching again after a non-success status
GeoFetchSettleRetries(s, r) ==
    /\ searches[s].pc = "geoFetch"
    /\ LET me == [searches[s] EXCEPT !.geoStatus = r] IN
       IF r = "reject"
       THEN CatchFinally(s, me, FetchRejectMsg) /\ UNCHANGED resultFields
       ELSE IF ~ResponseOk(r)
       THEN Continue(s, [me EXCEPT !.geoStatus = "pending", !.geoCalls = @ + 1])
       ELSE Continue(s, [me EXCEPT !.pc = "geoJson"])

\* fetchGeocoding: await fetch(url) settles with r
GeoFetchSettle(s, r) ==
    /\ searches[s].pc = "geoFetch"
    /\ LET me == [searches[s] EXCEPT !.geoStatus = r] IN
       IF r = "reject"
       THEN CatchFinally(s, me, FetchRejectMsg) /\ UNCHANGED resultFields
       ELSE IF ~ResponseOk(r)
       THEN CatchFinally(s, me, GeoUnavailableMsg) /\ UNCHANGED resultFields
       ELSE Continue(s, [me EXCEPT !.pc = "geoJson"])

\* fetchGeocoding: await response.json() settles with body; handleSearch goes on
\* to the result check and to the fetch of fetchWeather
GeoJsonSettle(s, body) ==
    /\ searches[s].pc = "geoJson"
    /\ IF ~body.parses
       THEN CatchFinally(s, searches[s], JsonParseMsg) /\ UNCHANGED resultFields
       ELSE LET me == [searches[s] EXCEPT !.geoData = body] IN
            IF NoResults(body)
            THEN CatchFinally(s, me, NotFoundMsg(me.city)) /\ UNCHANGED resultFields
            ELSE Continue(s, [me EXCEPT !.pc = "wxFetch", !.wxStatus = "pending",
                                        !.wxCalls = @ + 1])

\* fetchWeather: await fetch(url) settles with r
WxFetchSettle(s, r) ==
    /\ searches[s].pc = "wxFetch"
    /\ LET me == [searches[s] EXCEPT !.wxStatus = r] IN
       IF r = "reject"
       THEN CatchFinally(s, me, FetchRejectMsg) /\ UNCHANGED resultFields
       ELSE IF ~ResponseOk(r)
       THEN CatchFinally(s, me, WxUnavailableMsg) /\ UNCHANGED resultFields
       ELSE Continue(s, [me EXCEPT !.pc = "wxJson"])

\* fetchWeather: await response.json() settles with body; handleSearch goes on
\* to updateUI and to its finally block
WxJsonSettle(s, body) ==
    /\ searches[s].pc = "wxJson"
    /\ IF ~body.parses
       THEN CatchFinally(s, searches[s], JsonParseMsg) /\ UNCHANGED resultFields
       ELSE LET me == [searches[s] EXCEPT !.weatherData = body]
                first == me.geoData.results[1]
            IN  IF ~body.hasCurrent
                THEN /\ updateUIThrows(first.name, first.country)
                     /\ CatchFinally(s, me, RenderTypeErrorMsg)
                ELSE /\ updateUI(first.name, first.country, body)
                     /\ HideLoading
                     /\ searches' = Finish(s,
                            [me EXCEPT !.pc = "done", !.outcome = "Result",
                                       !.hides = @ + 1])
                     /\ submitted' = FALSE
                     /\ UNCHANGED <<cityInput, errorHidden, errorTextEl>>

(***************************************************************************)
(* The widget: any event, any response, in any order.                      *)
(***************************************************************************)
\* the order of the submissions is not recorded
Next ==
    \/ (\E value \in Inputs : TypeCity(value)) /\ UNCHANGED lastSubmitted
    \/ Click /\ UNCHANGED lastSubmitted
    \/ (\E key \in Keys : Keypress(key)) /\ UNCHANGED lastSubmitted
    \/ (\E s \in Slots, r \in FetchOutcomes : GeoFetchSettle(s, r)) /\ UNCHANGED lastSubmitted
    \/ (\E s \in Slots : \E body \in GeoBodies(searches[s].city) : GeoJsonSettle(s, body))
          /\ UNCHANGED lastSubmitted
    \/ (\E s \in Slots, r \in FetchOutcomes : WxFetchSettle(s, r)) /\ UNCHANGED lastSubmitted
    \/ (\E s \in Slots, body \in WxBodies : WxJsonSettle(s, body)) /\ UNCHANGED lastSubmitted

Spec == Init /\ [][Next]_vars

(***************************************************************************)
(* The renderer alone: one search at a time, every call succeeding, the    *)
(* weather response ranging over every code and every temperature of the   *)
(* bounds.                                                                 *)
(***************************************************************************)
Reading(t, a, c) == WxBody(TRUE, TRUE, Current(t, a, 60, 12, c))

RenderBodies ==
    {Reading(234, 216, c) : c \in Codes} \cup {Reading(t, 0 - t, 0) : t \in Tenths}

FoundBody(city) == [parses |-> TRUE, hasResults |-> TRUE, results |-> <<Place(city)>>]

NextRender ==
    \/ TypeCity(<<"a">>) /\ UNCHANGED lastSubmitted
    \/ (\A s \in Slots : ~InFlight(s)) /\ Click /\ UNCHANGED lastSubmitted
    \/ (\E s \in Slots : GeoFetchSettle(s, "ok")) /\ UNCHANGED lastSubmitted
    \/ (\E s \in Slots : GeoJsonSettle(s, FoundBody(searches[s].city)))
          /\ UNCHANGED lastSubmitted
    \/ (\E s \in Slots : WxFetchSettle(s, "ok")) /\ UNCHANGED lastSubmitted
    \/ (\E s \in Slots, body \in RenderBodies : WxJsonSettle(s, body))
          /\ UNCHANGED lastSubmitted

SpecRender == Init /\ [][NextRender]_vars

\* the same with submissions while a search is in flight
NextRenderOverlap ==
    \/ TypeCity(<<"a">>) /\ UNCHANGED lastSubmitted
    \/ Click /\ UNCHANGED lastSubmitted
    \/ (\E s \in Slots : GeoFetchSettle(s, "ok")) /\ UNCHANGED lastSubmitted
    \/ (\E s \in Slots : GeoJsonSettle(s, FoundBody(searches[s].city)))
          /\ UNCHANGED lastSubmitted
    \/ (\E s \in Slots : WxFetchSettle(s, "ok")) /\ UNCHANGED lastSubmitted
    \/ (\E s \in Slots, body \in RenderBodies : WxJsonSettle(s, body))
          /\ UNCHANGED lastSubmitted

SpecRenderOverlap == Init /\ [][NextRenderOverlap]_vars

(***************************************************************************)
(* The classifier (checked under SpecRender).                              *)
(***************************************************************************)
\* the invocation in slot s has returned after rendering a result
Rendered(s) == searches[s].pc = "done" /\ searches[s].outcome = "Result"
RenderedCode(s) == searches[s].weatherData.current.weather_code

\* the rows of the range table: <<lowest code, highest code, description, icon>>
TableRows ==
    { <<0, 0, "Clear Sky", "fa-sun">>,
      <<1, 3, "Partly Cloudy", "fa-cloud-sun">>,
      <<45, 48, "Foggy", "fa-smog">>,
      <<51, 55, "Drizzle", "fa-cloud-rain">>,
      <<61, 65, "Rain", "fa-cloud-showers-heavy">>,
      <<71, 77, "Snow Fall", "fa-snowflake">>,
      <<80, 82, "Rain Showers", "fa-cloud-showers-water">>,
      <<95, 99, "Thunderstorm", "fa-cloud-bolt">> }

\* the panel shows the description d and the icon i
Shows(d, i) == weatherDescEl = <<d>> /\ weatherIconEl = <<"fa-solid ", i>>

\* the codes of a row when fog is the two codes 45 and 48 only
ListedCodes(row) == IF row[1] = 45 THEN {45, 48} ELSE row[1]..row[2]

\* C1 as stated: a code among the listed ones (fog being 45 and 48 only) shows its
\* row, and every other code, 46 and 47 included, shows Unknown / fa-cloud.
C1_ListedCodesOnly ==
    \A s \in Slots : Rendered(s) =>
        /\ \A row \in TableRows :
              RenderedCode(s) \in ListedCodes(row) => Shows(row[3], row[4])
        /\ (\A row \in TableRows : RenderedCode(s) \notin ListedCodes(row))
              => Shows("Unknown", "fa-cloud")

\* C1 amended: a code within the inclusive bounds of a row (fog being 45..48)
\* shows that row's description and icon, and a code within no row, negative
\* or above 99 included, shows Unknown / fa-cloud.
C1_TableRow ==
    \A s \in Slots : Rendered(s) =>
        /\ \A row \in TableRows :
              RenderedCode(s) \in row[1]..row[2] => Shows(row[3], row[4])
        /\ (\A row \in TableRows : RenderedCode(s) \notin row[1]..row[2])
              => Shows("Unknown", "fa-cloud")

C1_Witness ==
    \E s \in Slots :
        Rendered(s) /\ RenderedCode(s) = 47 /\ Shows("Foggy", "fa-smog")

\* C2: codes 46 and 47 show Foggy and codes 44 and 49 show Unknown; for every
\* row both end codes show the row and the codes next below and next above
\* its bounds do not.
C2_InclusiveBounds ==
    \A s \in Slots : Rendered(s) =>
        /\ RenderedCode(s) \in {46, 47} => Shows("Foggy", "fa-smog")
        /\ RenderedCode(s) \in {44, 49} => Shows("Unknown", "fa-cloud")
        /\ \A row \in TableRows :
              /\ RenderedCode(s) \in {row[1], row[2]} => Shows(row[3], row[4])
              /\ RenderedCode(s) \in {row[1] - 1, row[2] + 1}
                    => weatherDescEl # <<row[3]>> /\ weatherIconEl # <<"fa-solid ", row[4]>>

C2_Witness ==
    \E s \in Slots : Rendered(s) /\ RenderedCode(s) = 46 /\ Shows("Foggy", "fa-smog")

(***************************************************************************)
(* The search flow (checked under Spec).                                   *)
(***************************************************************************)
\* the panels that are visible
Visible ==
    (IF loadingHidden THEN {} ELSE {"loading"})
        \cup (IF weatherHidden THEN {} ELSE {"result"})
        \cup (IF errorHidden THEN {} ELSE {"error"})

\* this step is the return of the invocation in slot s
Completes(s) == searches[s].pc \in InFlightPcs /\ searches'[s].pc = "done"

\* str is empty or consists of white space only
IsBlank(str) == \A i \in 1..Len(str) : str[i] \in {" ", "\t"}

\* C3: at most one of the loading indicator, the result panel and the error
\* panel is visible, in every reachable state.
C3_AtMostOnePanel == Cardinality(Visible) <= 1

\* C4: when an invocation returns after a failure, the error panel is visible
\* with that failure's message and the result panel is hidden.
C4_FailureEndsInError ==
    [][\A s \in Slots :
          (Completes(s) /\ searches'[s].outcome = "Error")
              => /\ errorHidden' = FALSE
                 /\ errorTextEl' = searches'[s].message
                 /\ weatherHidden' = TRUE]_vars

\* C5: a search whose geocode response had a success status and a body with no
\* results field or an empty result list has returned in Error with a message
\* that contains its trimmed city, and has issued no weather request.
C5_NotFound ==
    \A s \in Slots :
        LET me == searches[s] IN
        (/\ me.geoStatus = "ok"
         /\ me.geoData.parses
         /\ (~me.geoData.hasResults \/ me.geoData.results = <<>>))
            => /\ me.pc = "done"
               /\ me.outcome = "Error"
               /\ me.city = Trim(me.city)
               /\ me.city # <<>>
               /\ Contains(me.message, me.city)
               /\ me.wxCalls = 0
               /\ me.wxStatus = "none"

C5_Witness ==
    \E s \in Slots :
        /\ searches[s].pc = "done"
        /\ searches[s].geoData.hasResults
        /\ searches[s].geoData.results = <<>>
        /\ searches[s].city = <<"a", " ", "b">>
        /\ errorTextEl = <<"City \"", "a", " ", "b", "\" not found">>

\* C6: a search has issued its weather request only if its geocode request
\* returned a success status and a body with at least one result; a search whose
\* geocode request returned a non-success status has returned in Error without
\* a weather request.
C6_WeatherAfterGeocode ==
    \A s \in Slots :
        LET me == searches[s] IN
        /\ (me.wxCalls > 0 \/ me.wxStatus # "none" \/ me.pc \in {"wxFetch", "wxJson"})
              => /\ me.geoStatus = "ok"
                 /\ me.geoData.parses
                 /\ me.geoData.hasResults
                 /\ Len(me.geoData.results) >= 1
        /\ me.geoStatus = "notOk"
              => /\ me.pc = "done"
                 /\ me.outcome = "Error"
                 /\ me.wxCalls = 0
                 /\ me.wxStatus = "none"

C6_Witness ==
    \E s, r \in Slots :
        /\ searches[s].pc = "wxFetch" /\ searches[s].wxCalls = 1
        /\ searches[r].pc = "done" /\ searches[r].geoStatus = "notOk"

\* C7: an invocation that has not returned has not run the hide-loading
\* step; the step in which it returns, in Result or in Error, runs it once
\* and leaves the loading indicator hidden.
C7_HideLoadingOnce ==
    [][\A s \in Slots :
          /\ searches'[s].pc \in InFlightPcs => searches'[s].hides = 0
          /\ Completes(s)
                => /\ searches'[s].outcome \in {"Result", "Error"}
                   /\ searches'[s].hides = 1
                   /\ loadingHidden' = TRUE]_vars

C7_Witness ==
    \E s, r \in Slots :
        /\ searches[s].pc = "done" /\ searches[s].hides = 1
        /\ searches[s].outcome = "Error"
        /\ InFlight(r)
        /\ loadingHidden

\* C8: a submission while the text field is empty or holds white space only
\* changes no panel, no displayed text and no invocation.
C8_BlankSubmitNoOp ==
    [][(submitted' /\ IsBlank(cityInput))
          => UNCHANGED <<cityInput, panels, resultFields, errorTextEl, searches>>]_vars

C8_Witness ==
    /\ submitted
    /\ cityInput = <<" ", "\t">>
    /\ ~errorHidden
    /\ \E s \in Slots : InFlight(s)

\* C9: the step of a submission while the text field holds more than white
\* space leaves the loading indicator shown and the result and error panels
\* hidden.
C9_SubmitEntersLoading ==
    [][(submitted' /\ ~IsBlank(cityInput))
          => /\ loadingHidden' = FALSE
             /\ weatherHidden' = TRUE
             /\ errorHidden' = TRUE
             /\ \E s \in Slots :
                   /\ searches'[s].pc = "geoFetch"
                   /\ searches'[s].city = Trim(cityInput)]_vars

C9_Witness ==
    /\ submitted
    /\ ~IsBlank(cityInput)
    /\ Visible = {"loading"}
    /\ \E s, r \in Slots : searches[s].pc = "geoFetch" /\ searches[r].pc = "wxJson"

\* C10: while some invocation has not returned, the loading indicator is
\* shown and the result and error panels are hidden.
C10_LoadingWhileInFlight ==
    (\E s \in Slots : InFlight(s)) => Visible = {"loading"}

\* C11: at most one invocation of handleSearch has passed the guard and has
\* not returned.
C11_OneInFlight == Cardinality({s \in Slots : InFlight(s)}) <= 1

\* both calls of the invocation me succeeded: success statuses, a geocode body
\* with a result and a weather body with a current block
BothCallsSucceeded(me) ==
    /\ me.geoStatus = "ok"
    /\ me.geoData.parses /\ me.geoData.hasResults /\ Len(me.geoData.results) >= 1
    /\ me.wxStatus = "ok"
    /\ me.weatherData.parses /\ me.weatherData.hasCurrent

\* C12: once an invocation has returned in Error, a submission with more than
\* white space in the field starts a new invocation, shows the loading
\* indicator and hides the error panel; and an invocation whose two calls
\* succeed returns in Result with the result panel visible.
C12_UsableAfterError ==
    [][/\ (/\ \E r \in Slots : searches[r].pc = "done" /\ searches[r].outcome = "Error"
           /\ submitted' /\ ~IsBlank(cityInput))
          => /\ \E s \in Slots :
                   /\ Available(s)
                   /\ searches'[s].pc = "geoFetch"
                   /\ searches'[s].city = Trim(cityInput)
             /\ loadingHidden' = FALSE
             /\ errorHidden' = TRUE
       /\ \A s \in Slots :
             (Completes(s) /\ BothCallsSucceeded(searches'[s]))
                => /\ searches'[s].outcome = "Result"
                   /\ weatherHidden' = FALSE
                   /\ cityNameEl' = searches'[s].city \o <<", ", "IN">>]_vars

C12_Witness ==
    /\ \E s \in Slots : Rendered(s) /\ BothCallsSucceeded(searches[s])
    /\ \A s \in Slots : ~InFlight(s)
    /\ errorTextEl = <<"Weather service unavailable">>
    /\ Visible = {"result"}

\* C13: an invocation has issued at most one geocode request and at most one
\* weather request, and one whose geocode or weather request was rejected or
\* returned a non-success status has returned in Error.
C13_NoRetry ==
    \A s \in Slots :
        LET me == searches[s] IN
        /\ me.geoCalls <= 1
        /\ me.wxCalls <= 1
        /\ InFlight(s) => me.geoCalls = 1
        /\ me.geoStatus \in {"reject", "notOk"}
              => me.pc = "done" /\ me.outcome = "Error" /\ me.wxCalls = 0
        /\ me.wxStatus \in {"reject", "notOk"}
              => me.pc = "done" /\ me.outcome = "Error" /\ me.wxCalls = 1

C13_Witness ==
    \E s \in Slots :
        /\ searches[s].pc = "done"
        /\ searches[s].wxStatus = "notOk"
        /\ searches[s].geoCalls = 1 /\ searches[s].wxCalls = 1
        /\ errorTextEl = <<"Weather service unavailable">>
        /\ ~errorHidden

(***************************************************************************)
(* The classifier and the rounding (checked under SpecRender and           *)
(* SpecRenderOverlap).                                                     *)
(***************************************************************************)
\* the nine description / icon pairs of the table
NinePairs ==
    {<<row[3], row[4]>> : row \in TableRows} \cup {<<"Unknown", "fa-cloud">>}

IsNearest(n, tenths) == 10 * n - tenths \in (0 - 5)..5

\* C15: the temperature and the feels-like value shown are whole numbers
\* nearest to the provider's values: 23.4 shows 23 and 21.6 shows 22.
C15_RoundedToNearest ==
    \A s \in Slots : Rendered(s) =>
        LET current == searches[s].weatherData.current IN
        /\ Len(tempEl) = 1 /\ Len(feelsLikeEl) = 2
        /\ IsNearest(tempEl[1], current.temperature_2m)
        /\ IsNearest(feelsLikeEl[1], current.apparent_temperature)
        /\ feelsLikeEl[2] = "deg"
        /\ current.temperature_2m = 234 => tempEl[1] = 23
        /\ current.apparent_temperature = 216 => feelsLikeEl[1] = 22

C15_Witness ==
    \E s \in Slots :
        /\ Rendered(s)
        /\ searches[s].weatherData.current.temperature_2m = 0 - 16
        /\ tempEl = <<0 - 2>>
        /\ feelsLikeEl = <<2, "deg">>

\* the conditions of the chain that hold for code
Matches(code) == {i \in 1..Len(RangeConds) : CondHolds(i, code)}

\* orders of the eight conditions: every rotation of the order of the code and
\* of its reverse
Rotation(k) == [i \in 1..Len(RangeConds) |-> ((i + k - 1) % Len(RangeConds)) + 1]
Reversed(order) == [i \in 1..Len(order) |-> order[Len(order) + 1 - i]]
Orders ==
    {Rotation(k) : k \in 0..(Len(RangeConds) - 1)}
        \cup {Reversed(Rotation(k)) : k \in 0..(Len(RangeConds) - 1)}

\* C16: for every rendered code at most one condition of the chain holds, the
\* condition that holds is the one whose row is shown, and trying the conditions
\* in another order gives the description and icon shown.
C16_DisjointRanges ==
    \A s \in Slots : Rendered(s) =>
        LET code == RenderedCode(s) IN
        /\ Cardinality(Matches(code)) <= 1
        /\ \A i \in Matches(code) :
              Shows(RangeConds[i].info.description, RangeConds[i].info.icon)
        /\ Matches(code) = {} => Shows("Unknown", "fa-cloud")
        /\ \A order \in Orders :
              Shows(FirstMatch(order, code).description, FirstMatch(order, code).icon)

C16_Witness ==
    \E s \in Slots :
        /\ Rendered(s) /\ RenderedCode(s) = 51
        /\ Matches(51) = {4}
        /\ Shows("Drizzle", "fa-cloud-rain")

(***************************************************************************)
(* Overlapping searches (checked under SpecOrder: the widget with the      *)
(* order of the submissions recorded).                                     *)
(***************************************************************************)
\* this step is the call of handleSearch that starts the invocation in slot s
Starts(s) == Available(s) /\ searches'[s].pc = "geoFetch"

\* lastSubmitted follows the steps of the widget: the invocation a step starts
\* becomes the last submitted, and its outcome is recorded in the step it returns
TrackLastSubmitted ==
    lastSubmitted' =
        IF \E s \in Slots : Starts(s)
        THEN LET s == CHOOSE s \in Slots : Starts(s) IN
             [NoneSubmitted EXCEPT !.slot = s, !.city = searches'[s].city]
        ELSE IF lastSubmitted.slot \in Slots /\ Completes(lastSubmitted.slot)
        THEN [lastSubmitted EXCEPT
                 !.outcome = searches'[lastSubmitted.slot].outcome,
                 !.message = searches'[lastSubmitted.slot].message]
        ELSE lastSubmitted

\* the widget, with the order of the submissions recorded
NextOrder ==
    \/ (\E value \in Inputs : TypeCity(value)) /\ TrackLastSubmitted
    \/ Click /\ TrackLastSubmitted
    \/ (\E key \in Keys : Keypress(key)) /\ TrackLastSubmitted
    \/ (\E s \in Slots, r \in FetchOutcomes : GeoFetchSettle(s, r)) /\ TrackLastSubmitted
    \/ (\E s \in Slots : \E body \in GeoBodies(searches[s].city) : GeoJsonSettle(s, body))
          /\ TrackLastSubmitted
    \/ (\E s \in Slots, r \in FetchOutcomes : WxFetchSettle(s, r)) /\ TrackLastSubmitted
    \/ (\E s \in Slots, body \in WxBodies : WxJsonSettle(s, body)) /\ TrackLastSubmitted

SpecOrder == Init /\ [][NextOrder]_vars

NoneInFlight == \A s \in Slots : ~InFlight(s)

\* C17: once no invocation is waiting, the panels show the outcome of the
\* invocation submitted last and nothing else: its result alone with its city,
\* or its error message alone.
C17_LastSubmittedShown ==
    NoneInFlight =>
        /\ lastSubmitted.outcome = "Result"
              => /\ Visible = {"result"}
                 /\ cityNameEl = lastSubmitted.city \o <<", ", "IN">>
        /\ lastSubmitted.outcome = "Error"
              => /\ Visible = {"error"}
                 /\ errorTextEl = lastSubmitted.message

(***************************************************************************)
(* The fields of the result panel (checked under Spec).                    *)
(***************************************************************************)
\* every field of the result panel holds what the invocation me got
FieldsOf(me) ==
    LET current == me.weatherData.current IN
    /\ cityNameEl' = me.city \o <<", ", "IN">>
    /\ tempEl' = <<MathRound(current.temperature_2m)>>
    /\ feelsLikeEl' = <<MathRound(current.apparent_temperature), "deg">>
    /\ humidityEl' = <<current.relative_humidity_2m, "%">>
    /\ windSpeedEl' = <<current.wind_speed_10m, " km/h">>
    /\ weatherDescEl' = <<getWeatherInfo(current.weather_code).description>>
    /\ weatherIconEl' = <<"fa-solid ", getWeatherInfo(current.weather_code).icon>>

\* C18: the fields of the result panel come from one successful search: a step
\* changes a field only as the return of an invocation in Result, which writes
\* all of them from what it got; the return of an invocation in Error changes
\* no field of the result panel.
C18_FieldsOfOneSearch ==
    [][/\ \A s \in Slots :
             (Completes(s) /\ searches'[s].outcome = "Error")
                 => UNCHANGED resultFields
       /\ resultFields' # resultFields
             => \E s \in Slots :
                   /\ Completes(s)
                   /\ searches'[s].outcome = "Result"
                   /\ FieldsOf(searches'[s])]_vars

(***************************************************************************)
(* Termination (checked under SpecLive: every request the widget issued    *)
(* eventually yields a response or a failure).                             *)
(***************************************************************************)
\* the await the invocation in slot s waits at settles, one way or another
Settles(s) ==
    /\ \/ \E r \in FetchOutcomes : GeoFetchSettle(s, r)
       \/ \E body \in GeoBodies(searches[s].city) : GeoJsonSettle(s, body)
       \/ \E r \in FetchOutcomes : WxFetchSettle(s, r)
       \/ \E body \in WxBodies : WxJsonSettle(s, body)
    /\ UNCHANGED lastSubmitted

\* the widget with a blank or a non-blank city typed and submitted by either
\* route
NextLive ==
    \/ (\E value \in {<<>>, <<"a">>} : TypeCity(value)) /\ UNCHANGED lastSubmitted
    \/ Click /\ UNCHANGED lastSubmitted
    \/ Keypress("Enter") /\ UNCHANGED lastSubmitted
    \/ (\E s \in Slots, r \in FetchOutcomes : GeoFetchSettle(s, r)) /\ UNCHANGED lastSubmitted
    \/ (\E s \in Slots : \E body \in GeoBodies(searches[s].city) : GeoJsonSettle(s, body))
          /\ UNCHANGED lastSubmitted
    \/ (\E s \in Slots, r \in FetchOutcomes : WxFetchSettle(s, r)) /\ UNCHANGED lastSubmitted
    \/ (\E s \in Slots, body \in WxBodies : WxJsonSettle(s, body)) /\ UNCHANGED lastSubmitted

SpecLive == Init /\ [][NextLive]_vars /\ \A s \in Slots : WF_vars(Settles(s))

\* the invocation in slot s has returned in Result or in Error
Returned(s) == searches[s].pc = "done" /\ searches[s].outcome \in {"Result", "Error"}

\* C19: every invocation that passed the guard eventually returns, in Result
\* or in Error; when no invocation is waiting the loading indicator is hidden,
\* and only the call of handleSearch that starts an invocation shows it again.
C19_SearchesComplete ==
    /\ \A s \in Slots : InFlight(s) ~> Returned(s)
    /\ [](NoneInFlight => loadingHidden)
    /\ [][(loadingHidden /\ ~loadingHidden') => \E s \in Slots : Starts(s)]_vars

\* two overlapping searches have both returned, the last one in Result, and the
\* loading indicator is hidden
C19_Witness ==
    /\ NoneInFlight
    /\ loadingHidden
    /\ \E s \in Slots : Returned(s) /\ searches[s].outcome = "Result"
                        /\ searches[s].hides = 1
    /\ Visible = {"result", "error"}
====
